---- MODULE Spec2Model ----
(***************************************************************************)
(* Model of the PC2 service supervisor of the launcher (the native         *)
(* direct-spawn manager): the module-level state of the manager, the       *)
(* asynchronous operations startPC2 / stopPC2 / getStatus / installPC2 /   *)
(* setEnvironment split at their suspension points, the event handlers     *)
(* registered on the spawned child, and the status listener of the main    *)
(* process.  One action is one run-to-completion turn of the event loop.   *)
(***************************************************************************)
EXTENDS Integers, Sequences, FiniteSets, TLC

\* ------------------------------------------------------------------ bounds
\* number of startPC2() calls issued in one behaviour (each may spawn a child)
MaxStarts == 2
\* number of stopPC2() calls issued in one behaviour
MaxStops == 2
\* failed probes that fit into waitForServer's timeout window
PollLimit == 2
\* number of calls of the manager's operations issued in one behaviour
MaxCalls == 3
\* capacity of the log buffer (500 in the source); emitLog depends on it only
\* through the comparison logBuffer.length > MAX_LOG_LINES
MAX_LOG_LINES == 3
\* number of lines the children write to stdout / stderr in one behaviour
MaxOutputs == 1
\* number of callbacks registered with onLog in one behaviour
MaxListeners == 2
\* restartPC2() calls of the PM2 variant of the manager
MaxRestarts == 2

StartIds == 1..MaxStarts
StopIds == 1..MaxStops

\* ------------------------------------------------------- program constants
NoProcess == 0

Statuses == {"running", "stopped", "starting", "stopping", "error", "not-installed"}

EnvNames == {"default", "dev", "custom"}

\* user-supplied roots offered to setEnvironment('custom', dir); "" is "no dir".
\* Both are directories of the user that have nothing to do with the service.
CustomDirs == {"/tmp/unrelated", "/srv/my.pc2.bak"}

ENVIRONMENTS ==
  [default |-> [dir |-> "~/.pc2", nodeDir |-> "~/.pc2/pc2-node"],
   dev     |-> [dir |-> "~/pc2.net", nodeDir |-> "~/pc2.net/pc2-node"]]

Dirs == {ENVIRONMENTS["default"].dir, ENVIRONMENTS["dev"].dir} \cup CustomDirs

\* what an install root holds on disk:
\*   absent        the directory does not exist
\*   unrecognized  it exists but has no package.json
\*   source        cloned tree (package.json) without pc2-node/dist/index.js
\*   built         pc2-node/dist/index.js exists
\*   bundled       pc2-node/dist/index.js copied from the bundle, no package.json
\*                 in the root itself
DiskStates == {"absent", "unrecognized", "source", "built", "bundled"}

VARIABLES
  currentEnv,     \* let currentEnv
  customPath,     \* let customPath / ENVIRONMENTS.custom.dir
  disk,           \* the install roots on the file system
  backups,        \* the <root>_backup_<time> siblings that installs have made:
                  \* per backup, the root it was renamed from and what it holds
  pc2Process,     \* let pc2Process: the tracked child (NoProcess = null)
  proc,           \* OS state of the child spawned by start call s
  killed,         \* ChildProcess.killed of that child
  sig,            \* last signal delivered to that child
  starts,         \* the startPC2() calls: promise, error, polling loop
  stops,          \* the stopPC2() calls
  gs,             \* the getStatus() call
  inst,           \* the installPC2() call
  un,             \* the uninstallPC2() call
  sel,            \* the renderer's handler of the environment selector
  gl,             \* the getLogs() call: its argument and what it returned
  rs,             \* the restartPC2() call
  lastEnv,        \* history: the arguments of the last setEnvironment() call and
                  \* the custom root stored before it
  currentStatus,  \* last status given to the status listeners
  events,         \* history: the statuses given to the status listeners, in order
  logBuffer,      \* let logBuffer: the last MAX_LOG_LINES lines
  logListeners,   \* let logListeners: per registered callback, the lines it
                  \* has been called with in the current turn
  logged,         \* the lines handed to emitLog in the current turn
  outputs,        \* number of lines the children have written
  logWatch,       \* whether this behaviour records the log sink (logBuffer,
                  \* logListeners, logged).  No guard of the manager reads the
                  \* sink, so a behaviour that leaves it out is the projection
                  \* of one that records it; the specifications of the life
                  \* cycle leave it out, LogSpec records it
  histWatch,      \* whether this behaviour records the histories events and
                  \* lastEnv; no guard of the manager reads them
  budget,         \* number of operations that may still be called
  selfExited,     \* history: the tracked child exited on its own and no
                  \* operation has been called since
  freshInstall,   \* history: installPC2 has turned the current environment
                  \* from not installed into installed, and neither startPC2,
                  \* setEnvironment nor installPC2 has been called since
  loc,            \* the findNodePath() call: the host it ran on and what it
                  \* returned
  pm2,            \* PM2 variant of the manager: its restartPC2() calls
  pm2Status,      \* PM2 variant: last status given to the status listeners
  wslCurrentEnv,  \* WSL variant on Windows: let currentEnv
  wslCustom,      \* WSL variant: ENVIRONMENTS.custom
  wslOp,          \* WSL variant: the last operation and the path it addressed
  rendererStatus, \* app.js: let currentStatus, the status the window shows
  ipc             \* index.ts: the handler of pc2:setEnvironment

vars == <<currentEnv, customPath, disk, backups, pc2Process, proc, killed, sig,
          starts, stops, gs, inst, un, sel, gl, rs, lastEnv, currentStatus, events,
          logBuffer, logListeners, logged, outputs, logWatch, histWatch, budget,
          selfExited, freshInstall, loc, pm2, pm2Status,
          wslCurrentEnv, wslCustom, wslOp, rendererStatus, ipc>>

\* the state of the direct-spawn manager and of its callers
managerVars == <<currentEnv, customPath, disk, backups, pc2Process, proc, killed,
                 sig, starts, stops, gs, inst, un, sel, gl, rs, lastEnv,
                 currentStatus, events, rendererStatus, logBuffer, logListeners,
                 logged, outputs, logWatch, histWatch, budget, selfExited,
                 freshInstall, ipc>>

\* the state that the operations of the direct-spawn manager leave alone
locVars == <<loc>>

\* the state of the PM2 variant of the manager
pm2Vars == <<pm2, pm2Status>>

\* the state of the WSL variant of the manager
wslVars == <<wslCurrentEnv, wslCustom, wslOp>>

side == <<locVars, pm2Vars, wslVars, ipc>>

\* ------------------------------------------------------- environment paths
getPC2Dir ==
  IF currentEnv = "custom" THEN customPath ELSE ENVIRONMENTS[currentEnv].dir

\* fs.existsSync(nodeDir) && fs.existsSync(nodeDir/dist/index.js)
markerIn(d, dsk) ==
  /\ d \in Dirs
  /\ dsk[d] \in {"built", "bundled"}

isInstalled == markerIn(getPC2Dir, disk)

\* the handle test that startPC2, stopPC2 and getStatus use
trackedNotKilled ==
  /\ pc2Process # NoProcess
  /\ ~killed[pc2Process]

\* GET /health answers 2xx: some child is up and serving on port 4200
healthOk == \E c \in StartIds : proc[c] = "ready"

\* ChildProcess.kill(signal) on the tracked child
killTracked(signal) ==
  /\ killed' = [killed EXCEPT ![pc2Process] = TRUE]
  /\ sig' = [sig EXCEPT ![pc2Process] = signal]

\* the emitStatus calls of one turn, in order: every status listener is called
\* with each of them.  The listener of index.ts stores the status and sends
\* it to the window, where the onStatus callback of app.js stores it
emitStatusAll(statuses) ==
  /\ currentStatus' = statuses[Len(statuses)]
  /\ rendererStatus' = statuses[Len(statuses)]
  /\ events' = IF histWatch THEN events \o statuses ELSE events

emitStatus(status) == emitStatusAll(<<status>>)

\* push without the shift
push_NoShift(buf, line) == Append(buf, line)

\* logBuffer.push(line); if (logBuffer.length > MAX_LOG_LINES) logBuffer.shift()
push(buf, line) ==
  LET b == Append(buf, line)
  IN  IF Len(b) > MAX_LOG_LINES THEN Tail(b) ELSE b

RECURSIVE pushAll(_, _)
pushAll(buf, lines) ==
  IF lines = <<>> THEN buf ELSE pushAll(push(buf, Head(lines)), Tail(lines))

\* the emitLog calls of one turn, in order: each line goes into the buffer and
\* to every registered callback (a line is modelled by its message; the time
\* stamp in front of it is left out)
emitLog(lines) ==
  /\ IF logWatch
       THEN /\ logBuffer' = pushAll(logBuffer, lines)
            /\ logListeners' = [l \in DOMAIN logListeners |-> lines]
            /\ logged' = lines
       ELSE UNCHANGED <<logBuffer, logListeners, logged>>
  /\ UNCHANGED <<logWatch, histWatch>>

\* a turn that calls emitLog not at all
noLog == emitLog(<<>>)

\* the call slots are used in order
nextStart ==
  CHOOSE s \in StartIds :
    starts[s].promise = "none" /\ \A r \in StartIds : r < s => starts[r].promise # "none"

nextStop ==
  CHOOSE t \in StopIds :
    stops[t].pc = "none" /\ \A r \in StopIds : r < t => stops[r].pc # "none"

idleStart == [promise |-> "none", err |-> "none", loop |-> "none", polls |-> 0]

idleStop == [pc |-> "none", target |-> NoProcess, quiet |-> FALSE]

idleGs == [pc |-> "idle", result |-> "none", probed |-> FALSE, checked |-> FALSE,
           since |-> FALSE]

\* what an installPC2() call found on the host, recorded as history:
\* IS_WINDOWS, getBundledPC2Path() # null, isGitAvailable() (which only
\* installFromSource evaluates) and the outcome of downloadBundledNode()
noHost == [win |-> FALSE, bundlePath |-> FALSE, git |-> "unchecked", node |-> "unknown"]

\* retry is history: the call follows one on the same root that a pipeline
\* step has failed; exits are the exit codes of the pipeline steps that have
\* run, progress is the last label given to onProgress, err what the call has
\* rejected with
idleInst == [pc |-> "idle", step |-> 0, dir |-> "", retry |-> FALSE, exits |-> <<>>,
             progress |-> "", err |-> "none", host |-> noHost]

\* running is history: when the call was made, the last emitted status was
\* 'running' and the service answered on its port
idleUn == [pc |-> "idle", dir |-> "", stop |-> 0, running |-> FALSE]

idleSel == [pc |-> "idle", env |-> "default", stop |-> 0]

idleGl == [pc |-> "idle", lines |-> 0, result |-> ""]

\* stop and start are the stop and the start call that the restart makes
idleRs == [pc |-> "idle", stop |-> 0, start |-> 0]

\* ------------------------------------------------------- locating the runtime
\* getBundledNodePath()
bundledNode == "<BUNDLED_NODE_DIR>/node"

\* possiblePaths on Windows, in the order of the array
WindowsPaths ==
  <<"C:/Program Files/nodejs/node.exe",
    "C:/Program Files (x86)/nodejs/node.exe",
    "%LOCALAPPDATA%/Programs/nodejs/node.exe">>

\* possiblePaths on macOS and Linux, in the order of the array
UnixPaths == <<"/usr/local/bin/node", "/opt/homebrew/bin/node", "/usr/bin/node">>

\* directory names that ~/.nvm/versions/node may hold, in the order of
\* Array.prototype.sort() (by UTF-16 code unit: "1" sorts before "9")
NvmVersions == <<"v18.19.0", "v20.11.0", "v20.9.0">>

\* v.startsWith('v20')
startsWithV20(v) == v \in {"v20.11.0", "v20.9.0"}

\* path.join(nvmDir, version, 'bin', 'node')
nvmNode(v) ==
  CASE v = "v18.19.0" -> "~/.nvm/versions/node/v18.19.0/bin/node"
    [] v = "v20.11.0" -> "~/.nvm/versions/node/v20.11.0/bin/node"
    [] v = "v20.9.0"  -> "~/.nvm/versions/node/v20.9.0/bin/node"

Range(seq) == {seq[i] : i \in DOMAIN seq}

\* for (const nodePath of possiblePaths) if (fs.existsSync(nodePath)) return
\* nodePath; ... return 'node'
firstExisting(paths, files) ==
  IF \E i \in DOMAIN paths : paths[i] \in files
    THEN paths[CHOOSE i \in DOMAIN paths :
                 /\ paths[i] \in files
                 /\ \A j \in DOMAIN paths : paths[j] \in files => i <= j]
    ELSE "node"

\* versions.filter(v => v.startsWith('v20')).sort().reverse(), of the
\* directory listing, as the positions in NvmVersions from the last down
v20Versions(listing) ==
  {i \in DOMAIN NvmVersions :
     NvmVersions[i] \in listing /\ startsWithV20(NvmVersions[i])}

\* the directories of ~/.nvm/versions/node: the versions that hold a node
\* binary and the ones that were listed without one
readdirSync(files, empties) ==
  {v \in Range(NvmVersions) : nvmNode(v) \in files \/ v \in empties}

\* findNodePath trying the conventional locations before the versions of nvm
findNodePath_ConventionalFirst(win, files, empties) ==
  IF bundledNode \in files THEN bundledNode
  ELSE IF win THEN firstExisting(WindowsPaths, files)
  ELSE LET found == {i \in v20Versions(readdirSync(files, empties)) :
                       nvmNode(NvmVersions[i]) \in files}
       IN  IF \E i \in DOMAIN UnixPaths : UnixPaths[i] \in files
             THEN firstExisting(UnixPaths, files)
           ELSE IF found # {}
             THEN nvmNode(NvmVersions[CHOOSE i \in found : \A j \in found : j <= i])
             ELSE "node"

findNodePath(win, files, empties) ==
  IF bundledNode \in files THEN bundledNode
  ELSE IF win THEN firstExisting(WindowsPaths, files)
  ELSE LET found == {i \in v20Versions(readdirSync(files, empties)) :
                       nvmNode(NvmVersions[i]) \in files}
       IN  IF found # {}
             THEN nvmNode(NvmVersions[CHOOSE i \in found : \A j \in found : j <= i])
             ELSE firstExisting(UnixPaths, files)

\* a restartPC2() call of the PM2 variant: where it is, and the probes its
\* waitForServer() has made
RestartIds == 1..MaxRestarts

idleRestart == [pc |-> "idle", polls |-> 0]

\* ------------------------------------------- WSL variant: environment paths
\* paths are sequences of components; the empty sequence is ''
HOME == <<"C:", "Users", "me">>

\* getWSLHome(): /home/<wsl whoami>
WSL_HOME == <<"home", "me">>

\* the custom roots that the folder dialog may give on Windows
WinRoots == {<<"C:", "Users", "me", "my.pc2">>, <<"D:", "srv", "pc2.net">>}

startsWith(p, prefix) ==
  /\ Len(prefix) <= Len(p)
  /\ SubSeq(p, 1, Len(prefix)) = prefix

\* match[1].toLowerCase() of /^([A-Za-z]):\\/
driveLetter(c) ==
  CASE c = "C:" -> <<"c">>
    [] c = "D:" -> <<"d">>
    [] OTHER -> <<>>

\* toWSLPath(winPath) on Windows
toWSLPath(winPath) ==
  IF startsWith(winPath, HOME)
    THEN WSL_HOME \o SubSeq(winPath, Len(HOME) + 1, Len(winPath))
  ELSE IF winPath # <<>> /\ driveLetter(winPath[1]) # <<>>
    THEN <<"mnt">> \o driveLetter(winPath[1]) \o Tail(winPath)
  ELSE winPath

\* const ENVIRONMENTS of the WSL variant, IS_WINDOWS being true
WSL_ENVIRONMENTS ==
  [default |-> [dir |-> HOME \o <<".pc2">>,
                nodeDir |-> HOME \o <<".pc2", "pc2-node">>,
                wslDir |-> WSL_HOME \o <<".pc2">>,
                wslNodeDir |-> WSL_HOME \o <<".pc2", "pc2-node">>],
   dev |-> [dir |-> HOME \o <<"pc2.net">>,
            nodeDir |-> HOME \o <<"pc2.net", "pc2-node">>,
            wslDir |-> WSL_HOME \o <<"pc2.net">>,
            wslNodeDir |-> WSL_HOME \o <<"pc2.net", "pc2-node">>],
   custom |-> [dir |-> <<>>, nodeDir |-> <<>>, wslDir |-> <<>>,
               wslNodeDir |-> <<>>]]

wslEnvironment(env) == IF env = "custom" THEN wslCustom ELSE WSL_ENVIRONMENTS[env]

getWSLNodeDir == wslEnvironment(wslCurrentEnv).wslNodeDir

getWSLDir == wslEnvironment(wslCurrentEnv).wslDir

\* pc2Dir.includes('.pc2') || pc2Dir.includes('pc2.net')
wslSafe(pc2Dir) ==
  \E i \in DOMAIN pc2Dir : pc2Dir[i] \in {".pc2", "my.pc2", "pc2.net"}

noOp == [name |-> "none", path |-> <<>>, outcome |-> "none"]

\* the handler of pc2:setEnvironment: where it is, and the status it sent
idleIpc == [pc |-> "idle", status |-> "none"]

idleLoc == [pc |-> "idle", win |-> FALSE, files |-> {}, result |-> ""]

noEnvCall == [called |-> FALSE, env |-> "default", customDir |-> "", before |-> ""]

\* an operation is called: it counts, and it ends the "no operation since"
called ==
  /\ budget > 0
  /\ budget' = budget - 1
  /\ selfExited' = FALSE

\* the state of the manager after the module has been loaded, on a machine
\* where the default environment is or is not installed
Boot ==
  /\ currentEnv = "default"
  /\ customPath = ""
  /\ disk \in {[d \in Dirs |-> IF d = ENVIRONMENTS["default"].dir THEN x
                               ELSE IF d \in CustomDirs THEN "unrecognized"
                               ELSE "absent"] :
                 x \in {"absent", "built"}}
  /\ pc2Process = NoProcess
  /\ proc = [c \in StartIds |-> "none"]
  /\ killed = [c \in StartIds |-> FALSE]
  /\ sig = [c \in StartIds |-> "none"]
  /\ starts = [s \in StartIds |-> idleStart]
  /\ stops = [t \in StopIds |-> idleStop]
  /\ gs = idleGs
  /\ inst = idleInst
  /\ un = idleUn
  /\ sel = idleSel
  /\ gl = idleGl
  /\ rs = idleRs
  /\ lastEnv = noEnvCall
  /\ loc = idleLoc
  /\ pm2 = [r \in RestartIds |-> idleRestart]
  /\ pm2Status = "stopped"
  /\ wslCurrentEnv = "default"
  /\ wslCustom = WSL_ENVIRONMENTS["custom"]
  /\ wslOp = noOp
  /\ rendererStatus = "stopped"
  /\ ipc = idleIpc
  /\ backups = <<>>
  /\ events = <<>>
  /\ outputs = 0
  /\ currentStatus = "stopped"
  /\ logBuffer = <<>>
  /\ logListeners = <<(<<>>)>>
  /\ logged = <<>>
  /\ selfExited = FALSE
  /\ freshInstall = FALSE

Init ==
  /\ Boot
  /\ budget = MaxCalls
  /\ logWatch = FALSE
  /\ histWatch = FALSE

\* behaviours with one operation call less, the log sink recorded
InitShort ==
  /\ Boot
  /\ budget = MaxCalls - 1
  /\ logWatch = TRUE
  /\ histWatch = FALSE

\* behaviours with one operation call less, the histories recorded
InitWatch ==
  /\ Boot
  /\ budget = MaxCalls - 1
  /\ logWatch = FALSE
  /\ histWatch = TRUE

\* ... and the log sink too
InitInst ==
  /\ Boot
  /\ budget = MaxCalls - 1
  /\ logWatch = TRUE
  /\ histWatch = TRUE

\* behaviours with one more operation call
InitLong ==
  /\ Boot
  /\ budget = MaxCalls + 1
  /\ logWatch = FALSE
  /\ histWatch = FALSE

\* ------------------------------------------------------------ setEnvironment
\* the history of a setEnvironment(env, customDir) call
envCalled(env, customDir) ==
  lastEnv' = IF histWatch
               THEN [called |-> TRUE, env |-> env, customDir |-> customDir,
                     before |-> customPath]
               ELSE lastEnv

\* setEnvironment storing whatever custom directory it is given
setEnvironment_Clears(env, customDir) ==
  /\ noLog
  /\ called
  /\ currentEnv' = env
  /\ customPath' = IF env = "custom" THEN customDir ELSE customPath
  /\ envCalled(env, customDir)
  /\ freshInstall' = FALSE
  /\ gs' = [gs EXCEPT !.since = FALSE]
  /\ UNCHANGED <<disk, backups, pc2Process, proc, killed, sig, starts, stops, inst,
                 currentStatus, events, rendererStatus, un, sel, gl, rs, side, outputs>>

\* customPath stands for customPath, ENVIRONMENTS.custom.dir and (with
\* /pc2-node appended) ENVIRONMENTS.custom.nodeDir, which are assigned together
setEnvironment(env, customDir) ==
  /\ noLog
  /\ called
  /\ currentEnv' = env
  /\ customPath' = IF env = "custom" /\ customDir # "" THEN customDir ELSE customPath
  /\ envCalled(env, customDir)
  /\ freshInstall' = FALSE
  /\ gs' = [gs EXCEPT !.since = FALSE]
  /\ UNCHANGED <<disk, backups, pc2Process, proc, killed, sig, starts, stops, inst,
                 currentStatus, events, rendererStatus, un, sel, gl, rs, side, outputs>>

\* ------------------------------------------------------------------ getStatus
\* getStatusCall with the probe sent before the installation check
getStatusCall_ProbeFirst ==
  /\ noLog
  /\ gs.pc = "idle"
  /\ budget > 0
  /\ budget' = budget - 1
  /\ selfExited' = FALSE
  /\ gs' = [idleGs EXCEPT !.pc = "probing", !.probed = TRUE, !.since = freshInstall]
  /\ UNCHANGED <<currentEnv, customPath, disk, backups, pc2Process, proc, killed, sig, starts,
                 stops, inst, currentStatus, events, rendererStatus, freshInstall, un, sel, gl, rs, lastEnv, side, outputs>>

\* the call up to its first suspension point (the fetch of the health endpoint)
getStatusCall ==
  /\ noLog
  /\ gs.pc = "idle"
  /\ called
  /\ IF ~isInstalled
       THEN gs' = [idleGs EXCEPT !.pc = "done", !.result = "not-installed",
                                 !.since = freshInstall]
       ELSE gs' = [idleGs EXCEPT !.pc = "probing", !.probed = TRUE,
                                 !.since = freshInstall]
  /\ UNCHANGED <<currentEnv, customPath, disk, backups, pc2Process, proc, killed, sig, starts,
                 stops, inst, currentStatus, events, rendererStatus, freshInstall, un, sel, gl, rs, lastEnv, side, outputs>>

\* getStatusProbed handing the status it computed to the status listeners
getStatusProbed_Emits ==
  /\ noLog
  /\ gs.pc = "probing"
  /\ LET result == IF healthOk THEN "running"
                   ELSE IF trackedNotKilled THEN "starting" ELSE "stopped"
     IN  /\ gs' = [gs EXCEPT !.pc = "done", !.result = result, !.checked = ~healthOk]
         /\ emitStatus(result)
  /\ UNCHANGED <<currentEnv, customPath, disk, backups, pc2Process, proc, killed, sig,
                 starts, stops, inst, un, sel, gl, rs, lastEnv, side, outputs, budget, selfExited,
                 freshInstall>>

\* the fetch settles; the rest of getStatus runs to its return
getStatusProbed ==
  /\ noLog
  /\ gs.pc = "probing"
  /\ IF healthOk
       THEN gs' = [gs EXCEPT !.pc = "done", !.result = "running"]
       ELSE gs' = [gs EXCEPT !.pc = "done", !.checked = TRUE,
                             !.result = IF trackedNotKilled THEN "starting" ELSE "stopped"]
  /\ UNCHANGED <<currentEnv, customPath, disk, backups, pc2Process, proc, killed, sig, starts,
                 stops, inst, currentStatus, events, rendererStatus, budget, selfExited, freshInstall, un,
                 sel, gl, rs, lastEnv, side, outputs>>

\* the caller takes the result
getStatusReturn ==
  /\ noLog
  /\ gs.pc = "done"
  /\ gs' = idleGs
  /\ UNCHANGED <<currentEnv, customPath, disk, backups, pc2Process, proc, killed, sig, starts,
                 stops, inst, currentStatus, events, rendererStatus, budget, selfExited, freshInstall, un,
                 sel, gl, rs, lastEnv, side, outputs>>

\* ------------------------------------------------------------------- startPC2
\* the lines of a startPC2() that gets as far as the spawn
spawnLines ==
  <<"Starting PC2 from", "Using node", "Starting",
    "Process spawned, waiting for server to be ready...">>

\* startPC2() from its first line to its first suspension point, as start call
\* s: the checks, the spawn, the registration of the handlers and the first
\* probe of waitForServer being sent.  A spawn that fails raises 'error' on the
\* next tick, before any other turn of the event loop, so the 'error' handler
\* is part of this turn.
\* startBegin without the installation check
startBegin_NoInstallCheck(s, spawnOk) ==
  /\ IF trackedNotKilled
       THEN /\ emitLog(<<"PC2 is already running">>)
            /\ starts' = [starts EXCEPT ![s].promise = "resolved"]
            /\ UNCHANGED <<pc2Process, proc, currentStatus, events, rendererStatus>>
     ELSE IF spawnOk
       THEN /\ pc2Process' = s
            /\ proc' = [proc EXCEPT ![s] = "alive"]
            /\ emitStatus("starting")
            /\ emitLog(spawnLines)
            /\ starts' = [starts EXCEPT ![s].promise = "pending", ![s].loop = "polling"]
       ELSE /\ pc2Process' = NoProcess
            /\ proc' = [proc EXCEPT ![s] = "gone"]
            /\ emitStatus("error")
            /\ emitLog(Append(spawnLines, "Failed to start PC2"))
            /\ starts' = [starts EXCEPT ![s].promise = "rejected", ![s].err = "spawn",
                                        ![s].loop = "polling"]
  /\ freshInstall' = FALSE
  /\ gs' = [gs EXCEPT !.since = FALSE]

startBegin(s, spawnOk) ==
  /\ IF ~isInstalled
       THEN /\ emitStatus("not-installed")
            /\ emitLog(<<"PC2 is not installed. Please install first.">>)
            /\ starts' = [starts EXCEPT ![s].promise = "resolved"]
            /\ UNCHANGED <<pc2Process, proc>>
     ELSE IF trackedNotKilled
       THEN /\ emitLog(<<"PC2 is already running">>)
            /\ starts' = [starts EXCEPT ![s].promise = "resolved"]
            /\ UNCHANGED <<pc2Process, proc, currentStatus, events, rendererStatus>>
     ELSE IF spawnOk
       THEN /\ pc2Process' = s
            /\ proc' = [proc EXCEPT ![s] = "alive"]
            /\ emitStatus("starting")
            /\ emitLog(spawnLines)
            /\ starts' = [starts EXCEPT ![s].promise = "pending", ![s].loop = "polling"]
       ELSE /\ pc2Process' = NoProcess
            /\ proc' = [proc EXCEPT ![s] = "gone"]
            /\ emitStatus("error")
            /\ emitLog(Append(spawnLines, "Failed to start PC2"))
            /\ starts' = [starts EXCEPT ![s].promise = "rejected", ![s].err = "spawn",
                                        ![s].loop = "polling"]
  /\ freshInstall' = FALSE
  /\ gs' = [gs EXCEPT !.since = FALSE]

startPC2Call(spawnOk) ==
  /\ \E s \in StartIds : starts[s].promise = "none"
  /\ called
  /\ startBegin(nextStart, spawnOk)
  /\ UNCHANGED <<currentEnv, customPath, disk, backups, killed, sig, stops, inst, un,
                 sel, gl, rs, lastEnv, side, outputs>>

\* probeFails whose error leaves waitForServer: the .catch() handler runs
probeFails_Throws(s) ==
  /\ emitLog(<<"Failed to start: fetch failed">>)
  /\ starts[s].loop = "polling"
  /\ starts[s].polls < PollLimit
  /\ ~healthOk
  /\ emitStatus("error")
  /\ IF trackedNotKilled
       THEN /\ killTracked("SIGTERM")
            /\ pc2Process' = NoProcess
       ELSE UNCHANGED <<killed, sig, pc2Process>>
  /\ starts' = [starts EXCEPT ![s].loop = "threw", ![s].polls = @ + 1,
                              ![s].err = IF starts[s].promise = "pending" THEN "fetch" ELSE @,
                              ![s].promise = IF @ = "pending" THEN "rejected" ELSE @]
  /\ UNCHANGED <<currentEnv, customPath, disk, backups, proc, stops, gs, inst, budget,
                 selfExited, freshInstall, un, sel, gl, rs, lastEnv, side, outputs>>

\* probeFails telling the status listeners 'starting' again
probeFails_Emits(s) ==
  /\ noLog
  /\ starts[s].loop = "polling"
  /\ starts[s].polls < PollLimit
  /\ ~healthOk
  /\ starts' = [starts EXCEPT ![s].polls = @ + 1]
  /\ emitStatus("starting")
  /\ UNCHANGED <<currentEnv, customPath, disk, backups, pc2Process, proc, killed, sig,
                 stops, gs, inst, budget, selfExited, freshInstall, un, sel, gl, rs,
                 lastEnv, side, outputs>>

\* a probe of waitForServer fails (network error, abort or non-2xx)
probeFails(s) ==
  /\ noLog
  /\ starts[s].loop = "polling"
  /\ starts[s].polls < PollLimit
  /\ ~healthOk
  /\ starts' = [starts EXCEPT ![s].polls = @ + 1]
  /\ UNCHANGED <<currentEnv, customPath, disk, backups, pc2Process, proc, killed, sig, stops,
                 gs, inst, currentStatus, events, rendererStatus, budget, selfExited, freshInstall, un, sel,
                 gl, rs, lastEnv, side, outputs>>

\* a probe gets a 2xx: waitForServer returns and the .then() handler runs
probeSucceeds(s) ==
  /\ emitLog(<<"PC2 is now running!">>)
  /\ starts[s].loop = "polling"
  /\ starts[s].polls < PollLimit
  /\ healthOk
  /\ emitStatus("running")
  /\ starts' = [starts EXCEPT ![s].loop = "ready",
                              ![s].promise = IF @ = "pending" THEN "resolved" ELSE @]
  /\ UNCHANGED <<currentEnv, customPath, disk, backups, pc2Process, proc, killed, sig, stops,
                 gs, inst, budget, selfExited, freshInstall, un, sel, gl, rs, lastEnv, side, outputs>>

\* waitTimeout whose .catch() handler only rejects
waitTimeout_Silent(s) ==
  /\ noLog
  /\ starts[s].loop = "polling"
  /\ starts[s].polls = PollLimit
  /\ starts' = [starts EXCEPT ![s].loop = "timedout",
                              ![s].err = IF starts[s].promise = "pending" THEN "timeout" ELSE @,
                              ![s].promise = IF @ = "pending" THEN "rejected" ELSE @]
  /\ UNCHANGED <<currentEnv, customPath, disk, backups, pc2Process, proc, killed, sig,
                 stops, gs, inst, currentStatus, events, rendererStatus, budget,
                 selfExited, freshInstall, un, sel, gl, rs, lastEnv, side, outputs>>

\* the timeout has elapsed: waitForServer throws and the .catch() handler runs
waitTimeout(s) ==
  /\ emitLog(<<"Failed to start: Server did not start in time">>)
  /\ starts[s].loop = "polling"
  /\ starts[s].polls = PollLimit
  /\ emitStatus("error")
  /\ IF trackedNotKilled
       THEN /\ killTracked("SIGTERM")
            /\ pc2Process' = NoProcess
       ELSE UNCHANGED <<killed, sig, pc2Process>>
  /\ starts' = [starts EXCEPT ![s].loop = "timedout",
                              ![s].err = IF starts[s].promise = "pending" THEN "timeout" ELSE @,
                              ![s].promise = IF @ = "pending" THEN "rejected" ELSE @]
  /\ UNCHANGED <<currentEnv, customPath, disk, backups, proc, stops, gs, inst, budget,
                 selfExited, freshInstall, un, sel, gl, rs, lastEnv, side, outputs>>

\* the 'exit' handler that the start call registered on its child
onExit(c, code) ==
  /\ proc[c] = "exited"
  /\ code = "null" => sig[c] # "none"
  /\ emitLog(IF code # "null" THEN <<"PC2 exited with code">>
                              ELSE <<"PC2 was killed with signal">>)
  /\ proc' = [proc EXCEPT ![c] = "gone"]
  /\ pc2Process' = NoProcess
  /\ emitStatus("stopped")
  /\ selfExited' = (selfExited \/ (pc2Process = c /\ sig[c] = "none"))
  /\ UNCHANGED <<currentEnv, customPath, disk, backups, killed, sig, starts, stops, gs, inst,
                 budget, freshInstall, un, sel, gl, rs, lastEnv, side, outputs>>

\* -------------------------------------------------------------------- stopPC2
\* removed leaving a root that holds a build in place
removed_Kept(d) ==
  IF d \in Dirs /\ disk[d] \notin {"built", "bundled"}
    THEN [disk EXCEPT ![d] = "absent"]
    ELSE disk

\* fs.rmSync(pc2Dir, { recursive: true, force: true }) behind fs.existsSync
removed(d) ==
  IF d \in Dirs THEN [disk EXCEPT ![d] = "absent"] ELSE disk

\* the lines of the rest of uninstallPC2 after its status query and its stop
uninstallLines(d) ==
  IF d \in Dirs /\ disk[d] # "absent"
    THEN <<"Uninstalling PC2 from", "PC2 uninstalled successfully">>
    ELSE <<"Uninstalling PC2 from">>

\* an uninstallPC2() is suspended in 'await stopPC2()' on stop call t
uninstallAwaits(t) ==
  /\ un.pc = "stopping"
  /\ un.stop = t

\* stopPC2() from its first line to the point where it returns its promise,
\* as stop call t, in a turn that has emitted statuses and logged lines before
stopFrom(t, statuses, lines) ==
  /\ emitStatusAll(Append(statuses, "stopping"))
  /\ emitLog(Append(lines, "Stopping PC2..."))
  /\ IF trackedNotKilled
       THEN /\ killTracked("SIGTERM")
            /\ stops' = [stops EXCEPT ![t] = [pc |-> "grace", target |-> pc2Process,
                                              quiet |-> FALSE]]
       ELSE /\ stops' = [stops EXCEPT ![t] = [pc |-> "exec", target |-> pc2Process,
                                              quiet |-> pc2Process = NoProcess /\ ~healthOk]]
            /\ UNCHANGED <<killed, sig>>

stopBegin(t) == stopFrom(t, <<>>, <<>>)

\* stop call t emits 'stopped', logs its last lines and resolves; an
\* uninstallPC2() that awaits it runs to its end in the same turn
stopResolve(t, lines) ==
  /\ stops' = [stops EXCEPT ![t].pc = "resolved"]
  /\ IF uninstallAwaits(t)
       THEN /\ emitLog(lines \o uninstallLines(un.dir))
            /\ disk' = removed(un.dir)
            /\ UNCHANGED backups
            /\ emitStatus("not-installed")
            /\ un' = [un EXCEPT !.pc = "done"]
            /\ freshInstall' = FALSE
       ELSE /\ emitLog(lines)
            /\ emitStatus("stopped")
            /\ UNCHANGED <<disk, backups, un, freshInstall>>

stopPC2Call ==
  /\ \E t \in StopIds : stops[t].pc = "none"
  /\ called
  /\ stopBegin(nextStop)
  /\ UNCHANGED <<currentEnv, customPath, disk, backups, pc2Process, proc, starts, gs, inst,
                 freshInstall, un, sel, gl, rs, lastEnv, side, outputs>>

\* the 3000 ms timer of the tracked branch
stopTimer(t) ==
  /\ stops[t].pc = "grace"
  /\ IF trackedNotKilled
       THEN /\ killTracked("SIGKILL")
            /\ stopResolve(t, <<"Force killing PC2...", "PC2 stopped">>)
       ELSE /\ stopResolve(t, <<"PC2 stopped">>)
            /\ UNCHANGED <<killed, sig>>
  /\ pc2Process' = NoProcess
  /\ UNCHANGED <<currentEnv, customPath, proc, starts, gs, inst, budget, selfExited,
                 sel, gl, rs, lastEnv, side, outputs>>

\* the command of the untracked branch runs: kill -9 of whatever listens on 4200
stopPortKill(t) ==
  /\ noLog
  /\ stops[t].pc = "exec"
  /\ proc' = [c \in StartIds |-> IF proc[c] = "ready" THEN "exited" ELSE proc[c]]
  /\ sig' = [c \in StartIds |-> IF proc[c] = "ready" THEN "SIGKILL" ELSE sig[c]]
  /\ stops' = [stops EXCEPT ![t].pc = "swept"]
  /\ UNCHANGED <<currentEnv, customPath, disk, backups, pc2Process, killed, starts, gs, inst,
                 currentStatus, events, rendererStatus, budget, selfExited, freshInstall, un, sel, gl, rs, lastEnv, side, outputs>>

\* stopExecDone resolving without the emitStatus('stopped')
stopExecDone_NoEmit(t) ==
  /\ stops[t].pc = "swept"
  /\ stops' = [stops EXCEPT ![t].pc = "resolved"]
  /\ emitLog(<<"PC2 stopped">>)
  /\ UNCHANGED <<currentEnv, customPath, disk, backups, pc2Process, proc, killed, sig, starts,
                 gs, inst, currentStatus, events, rendererStatus, budget, selfExited, freshInstall, un, sel, gl, rs, lastEnv, side,
                 outputs>>

\* the callback of that command
stopExecDone(t) ==
  /\ stops[t].pc = "swept"
  /\ stopResolve(t, <<"PC2 stopped">>)
  /\ UNCHANGED <<currentEnv, customPath, pc2Process, proc, killed, sig, starts,
                 gs, inst, budget, selfExited, sel, gl, rs, lastEnv, side, outputs>>

\* ----------------------------------------------------------------- restartPC2
\* the call up to its first suspension point: emitStatus('starting'), the log
\* line, and stopPC2() up to the point where it returns its promise
restartPC2Call ==
  /\ rs.pc = "idle"
  /\ \E t \in StopIds : stops[t].pc = "none"
  /\ called
  /\ stopFrom(nextStop, <<"starting">>, <<"Restarting PC2...">>)
  /\ rs' = [pc |-> "stopping", stop |-> nextStop, start |-> 0]
  /\ UNCHANGED <<currentEnv, customPath, disk, backups, pc2Process, proc, starts, gs,
                 inst, freshInstall, un, sel, gl, lastEnv, side, outputs>>

\* the stop has resolved and the 1000 ms pause is over: startPC2() up to its
\* first suspension point; the restart settles as that start call does
restartPause(spawnOk) ==
  /\ rs.pc = "stopping"
  /\ stops[rs.stop].pc = "resolved"
  /\ \E s \in StartIds : starts[s].promise = "none"
  /\ startBegin(nextStart, spawnOk)
  /\ rs' = [rs EXCEPT !.pc = "started", !.start = nextStart]
  /\ selfExited' = FALSE
  /\ UNCHANGED <<currentEnv, customPath, disk, backups, killed, sig, stops, inst, un,
                 sel, gl, lastEnv, side, outputs, budget>>

\* ----------------------------------------------------------------- installPC2
\* rename of an existing root that has no package.json to <root>_backup_<time>
backupUnrecognized(d) ==
  IF d \in Dirs /\ disk[d] \in {"unrecognized", "bundled"}
    THEN [disk EXCEPT ![d] = "absent"]
    ELSE disk

\* a backup that keeps nothing of what the root held
backedUp_Lost(d) == backups

\* the siblings after that rename: one more, holding what the root held
backedUp(d) ==
  IF d \in Dirs /\ disk[d] \in {"unrecognized", "bundled"}
    THEN Append(backups, [from |-> d, holds |-> disk[d]])
    ELSE backups

\* the lines around the download of the runtime
downloadLines(ok) ==
  IF ok THEN <<"Node.js ready">>
        ELSE <<"Warning: Could not download bundled Node.js", "Will try to use system Node.js...">>

\* the line of the backup, if installFromBundle / installFromSource makes one
backupLines(d) ==
  IF d \in Dirs /\ disk[d] \in {"unrecognized", "bundled"}
    THEN <<"Backing up existing">>
    ELSE <<>>

\* what the call finds on the host
hostFound(win, bundlePath, git) ==
  IF histWatch
    THEN [win |-> win, bundlePath |-> bundlePath,
          git |-> IF win /\ bundlePath THEN "unchecked"
                  ELSE IF git THEN "present" ELSE "absent",
          node |-> "unknown"]
    ELSE noHost

nodeFound(downloaded) ==
  IF histWatch
    THEN [inst.host EXCEPT !.node = IF downloaded THEN "ready" ELSE "failed"]
    ELSE inst.host

\* installPC2Call that looks for git only after the runtime has been provided
installPC2Call_GitLate(win, bundlePath, git) ==
  /\ inst.pc \in {"idle", "done", "failed"}
  /\ budget > 0
  /\ budget' = budget - 1
  /\ selfExited' = FALSE
  /\ emitLog(<<"Installing PC2 to">> \o
             (IF win /\ bundlePath
                THEN <<"Installing from bundled PC2 at", "Downloading bundled Node.js">>
                ELSE <<"Downloading bundled Node.js">>))
  /\ inst' = [pc |-> IF win /\ bundlePath THEN "bundle" ELSE "prepare",
              step |-> 0, dir |-> getPC2Dir,
              retry |-> (inst.pc = "failed" /\ inst.err = "step" /\ inst.dir = getPC2Dir),
              exits |-> <<>>, progress |-> "Downloading Node.js LTS...", err |-> "none",
              host |-> hostFound(win, bundlePath, git)]
  /\ freshInstall' = FALSE
  /\ gs' = [gs EXCEPT !.since = FALSE]
  /\ UNCHANGED <<currentEnv, customPath, disk, backups, pc2Process, proc, killed, sig,
                 starts, stops, currentStatus, events, rendererStatus, un, sel, gl, rs, lastEnv, side, outputs>>

\* the call up to its first suspension point (the download of the runtime, the
\* runtime being taken as not yet provided); win is IS_WINDOWS, bundlePath is
\* getBundledPC2Path() # null, git is isGitAvailable()
installPC2Call(win, bundlePath, git) ==
  /\ inst.pc \in {"idle", "done", "failed"}
  /\ called
  /\ LET path == IF win /\ bundlePath THEN "bundle"
                 ELSE IF git THEN "prepare" ELSE "failed"
     IN  /\ emitLog(<<"Installing PC2 to">> \o
                    (IF path = "bundle"
                       THEN <<"Installing from bundled PC2 at", "Downloading bundled Node.js">>
                     ELSE IF path = "prepare"
                       THEN <<"Downloading bundled Node.js">>
                     ELSE <<"Git is not installed. Please install git and try again.">>))
         /\ inst' = [pc |-> path, step |-> 0, dir |-> getPC2Dir,
                     retry |-> (inst.pc = "failed" /\ inst.err = "step"
                                /\ inst.dir = getPC2Dir),
                     exits |-> <<>>,
                     progress |-> IF path = "failed" THEN ""
                                  ELSE "Downloading Node.js LTS...",
                     err |-> IF path = "failed" THEN "git" ELSE "none",
                     host |-> hostFound(win, bundlePath, git)]
  /\ freshInstall' = FALSE
  /\ gs' = [gs EXCEPT !.since = FALSE]
  /\ UNCHANGED <<currentEnv, customPath, disk, backups, pc2Process, proc, killed, sig,
                 starts, stops, currentStatus, events, rendererStatus, un, sel, gl, rs, lastEnv, side, outputs>>

\* installFromBundle after the runtime has been provided: backup, mkdir, copies
installFromBundle(downloaded) ==
  /\ inst.pc = "bundle"
  /\ LET d == inst.dir
         backed == backupUnrecognized(d)
     IN  IF d \in Dirs
           THEN /\ backups' = backedUp(d)
                /\ disk' = [backed EXCEPT ![d] = IF @ \in {"source", "built"}
                                                    THEN "built" ELSE "bundled"]
                /\ inst' = [inst EXCEPT !.pc = "done", !.progress = "Installation complete!",
                                        !.host = nodeFound(downloaded)]
                /\ freshInstall' = (d = getPC2Dir /\ ~markerIn(d, backed))
                /\ emitLog(downloadLines(downloaded) \o backupLines(d) \o
                           <<"Copying pre-built backend...", "Copying pre-built frontend...",
                             "Copying pre-compiled node_modules...", "Copying configuration...",
                             "Installation complete! (from pre-built bundle)">>)
           ELSE /\ inst' = [inst EXCEPT !.pc = "failed", !.err = "mkdir",
                                        !.progress = "Preparing installation...",
                                        !.host = nodeFound(downloaded)]
                /\ emitLog(downloadLines(downloaded))
                /\ UNCHANGED <<disk, backups, freshInstall>>
  /\ UNCHANGED <<currentEnv, customPath, pc2Process, proc, killed, sig, starts,
                 stops, gs, currentStatus, events, rendererStatus, budget, selfExited, un, sel, gl, rs,
                 lastEnv, side, outputs>>

\* the progress line of step k
stepMsg(k) ==
  IF k = 1 THEN "Cloning repository..."
  ELSE IF k = 2 THEN "Installing dependencies..."
  ELSE IF k = 3 THEN "Installing node dependencies..."
  ELSE "Building PC2..."

\* installFromSource after the runtime has been provided: backup, first step sent
installFromSource(downloaded) ==
  /\ inst.pc = "prepare"
  /\ emitLog(downloadLines(downloaded) \o <<"Using Node.js", "Using npm">> \o
             backupLines(inst.dir) \o <<stepMsg(1)>>)
  /\ disk' = backupUnrecognized(inst.dir)
  /\ backups' = backedUp(inst.dir)
  /\ inst' = [inst EXCEPT !.pc = "step", !.step = 1, !.progress = stepMsg(1),
                          !.host = nodeFound(downloaded)]
  /\ UNCHANGED <<currentEnv, customPath, pc2Process, proc, killed, sig, starts,
                 stops, gs, currentStatus, events, rendererStatus, budget, selfExited, freshInstall, un,
                 sel, gl, rs, lastEnv, side, outputs>>

\* what the command of step k leaves in root d when it exits with code 0
stepEffect(k, d) ==
  IF k = 1 THEN [disk EXCEPT ![d] = "source"]
  ELSE IF k = 4 THEN [disk EXCEPT ![d] = "built"]
  ELSE disk

\* whether the command of step k can exit with code 0: git clone needs an
\* absent target, the npm steps need the cloned tree
stepCanPass(k, d) ==
  /\ d \in Dirs
  /\ IF k = 1 THEN disk[d] = "absent" ELSE disk[d] \in {"source", "built"}

\* installStep going on to the next step whatever the exit code
installStep_Continue(exitOk) ==
  /\ inst.pc = "step"
  /\ LET k == inst.step
         code == IF exitOk /\ stepCanPass(k, inst.dir) THEN "0" ELSE "1"
     IN  /\ inst' = IF k = 4
                      THEN [inst EXCEPT !.pc = "done", !.exits = Append(@, code),
                                        !.progress = "Installation complete!"]
                      ELSE [inst EXCEPT !.step = k + 1, !.exits = Append(@, code),
                                        !.progress = stepMsg(k + 1)]
         /\ emitLog(IF k = 4 THEN <<"Installation complete!">> ELSE <<stepMsg(k + 1)>>)
  /\ UNCHANGED <<currentEnv, customPath, disk, backups, pc2Process, proc, killed, sig,
                 starts, stops, gs, currentStatus, events, rendererStatus, budget, selfExited,
                 freshInstall, un, sel, gl, rs, lastEnv, side, outputs>>

\* the callback of the command of the current step: on exit code 0 the loop
\* reports and sends the next step, or the call returns after the last one;
\* on any other exit the call rejects with the error of the step
installStep(exitOk) ==
  /\ inst.pc = "step"
  /\ LET k == inst.step
         d == inst.dir
         code == IF exitOk /\ stepCanPass(k, d) THEN "0" ELSE "1"
     IN  IF code = "0"
           THEN /\ disk' = stepEffect(k, d)
                /\ UNCHANGED backups
                /\ inst' = IF k = 4
                             THEN [inst EXCEPT !.pc = "done", !.exits = Append(@, code),
                                               !.progress = "Installation complete!"]
                             ELSE [inst EXCEPT !.step = k + 1, !.exits = Append(@, code),
                                               !.progress = stepMsg(k + 1)]
                /\ emitLog(IF k = 4 THEN <<"Installation complete!">>
                                    ELSE <<stepMsg(k + 1)>>)
                /\ freshInstall' = IF k = 4 THEN d = getPC2Dir /\ ~markerIn(d, disk)
                                             ELSE freshInstall
           ELSE /\ inst' = [inst EXCEPT !.pc = "failed", !.err = "step",
                                        !.exits = Append(@, code)]
                /\ emitLog(<<"Error: Command failed">>)
                /\ UNCHANGED <<disk, backups, freshInstall>>
  /\ UNCHANGED <<currentEnv, customPath, pc2Process, proc, killed, sig, starts,
                 stops, gs, currentStatus, events, rendererStatus, budget, selfExited, un, sel, gl, rs,
                 lastEnv, side, outputs>>

\* --------------------------------------------------------------- uninstallPC2
\* String.prototype.includes
includes(str, needle) ==
  \E i \in 1..(Len(str) - Len(needle) + 1) : SubSeq(str, i, i + Len(needle) - 1) = needle

\* safetyCheck letting every root pass
safetyCheck_Always(d) == TRUE

\* the safety check of uninstallPC2 lets root d pass
safetyCheck(d) == includes(d, ".pc2") \/ includes(d, "pc2.net")

\* the rest of uninstallPC2 after its status query, when no stop is needed
uninstallFinish(d) ==
  /\ emitLog(uninstallLines(d))
  /\ disk' = removed(d)
  /\ UNCHANGED backups
  /\ emitStatus("not-installed")
  /\ un' = [un EXCEPT !.pc = "done", !.dir = d]
  /\ freshInstall' = FALSE

\* the call up to its first suspension point: the safety check, then getStatus()
\* up to its fetch; a getStatus() that finds nothing installed returns at once
\* and the call runs to its end
uninstallPC2Call ==
  /\ un.pc = "idle"
  /\ called
  /\ LET d == getPC2Dir IN
     IF ~safetyCheck(d)
       THEN /\ un' = [idleUn EXCEPT !.pc = "failed", !.dir = d]
            /\ noLog
            /\ UNCHANGED <<disk, backups, currentStatus, events, rendererStatus, freshInstall>>
     ELSE IF ~isInstalled
       THEN uninstallFinish(d)
       ELSE /\ un' = [idleUn EXCEPT !.pc = "probing", !.dir = d,
                                   !.running = (currentStatus = "running" /\ healthOk)]
            /\ noLog
            /\ UNCHANGED <<disk, backups, currentStatus, events, rendererStatus, freshInstall>>
  /\ UNCHANGED <<currentEnv, customPath, pc2Process, proc, killed, sig, starts, stops,
                 gs, inst, sel, gl, rs, lastEnv, side, outputs>>

\* the fetch of that getStatus() settles: 'running' makes the call enter
\* stopPC2(), any other status lets it run to its end
uninstallProbed ==
  /\ un.pc = "probing"
  /\ healthOk => \E t \in StopIds : stops[t].pc = "none"
  /\ IF healthOk
       THEN /\ stopBegin(nextStop)
            /\ un' = [un EXCEPT !.pc = "stopping", !.stop = nextStop]
            /\ UNCHANGED <<disk, backups, freshInstall>>
       ELSE /\ uninstallFinish(un.dir)
            /\ UNCHANGED <<stops, killed, sig>>
  /\ UNCHANGED <<currentEnv, customPath, pc2Process, proc, starts, gs, inst, budget,
                 selfExited, sel, gl, rs, lastEnv, side, outputs>>

\* the caller takes the outcome (the promise has resolved or rejected)
uninstallReturn ==
  /\ un.pc \in {"done", "failed"}
  /\ un' = idleUn
  /\ noLog
  /\ UNCHANGED <<currentEnv, customPath, disk, backups, pc2Process, proc, killed, sig, starts,
                 stops, gs, inst, sel, gl, rs, lastEnv, side, currentStatus, events, rendererStatus, outputs, budget, selfExited,
                 freshInstall>>

\* ------------------------------------------- the renderer's environment selector
\* the 'change' handler up to its first await: it stops the service if the
\* last status it was told is 'running', else it goes on to setEnvironment; the
\* handler passes no custom directory
envSelectChange(env) ==
  /\ sel.pc \in {"idle", "done"}
  /\ env # currentEnv
  /\ called
  /\ IF currentStatus = "running"
       THEN /\ \E t \in StopIds : stops[t].pc = "none"
            /\ stopBegin(nextStop)
            /\ sel' = [pc |-> "stopping", env |-> env, stop |-> nextStop]
            /\ UNCHANGED <<currentEnv, freshInstall, gs>>
       ELSE /\ currentEnv' = env
            /\ freshInstall' = FALSE
            /\ gs' = [gs EXCEPT !.since = FALSE]
            /\ sel' = [pc |-> "done", env |-> env, stop |-> 0]
            /\ noLog
            /\ UNCHANGED <<stops, killed, sig, currentStatus, events, rendererStatus>>
  /\ UNCHANGED <<customPath, disk, backups, pc2Process, proc, starts, inst, un, gl, rs, lastEnv, side, outputs>>

\* the stop it awaited has resolved: the handler calls setEnvironment
envSelectSwitch ==
  /\ sel.pc = "stopping"
  /\ stops[sel.stop].pc = "resolved"
  /\ currentEnv' = sel.env
  /\ freshInstall' = FALSE
  /\ gs' = [gs EXCEPT !.since = FALSE]
  /\ sel' = [sel EXCEPT !.pc = "done"]
  /\ noLog
  /\ UNCHANGED <<customPath, disk, backups, pc2Process, proc, killed, sig, starts, stops, inst,
                 un, gl, rs, lastEnv, side, currentStatus, events, rendererStatus, budget, selfExited, outputs>>

\* ------------------------------------------------------------ the log sink
\* Array.prototype.slice(start) with one argument
slice(arr, start) ==
  LET len == Len(arr)
      k == IF start < 0
             THEN (IF len + start > 0 THEN len + start ELSE 0)
             ELSE (IF start < len THEN start ELSE len)
  IN  SubSeq(arr, k + 1, len)

\* Array.prototype.join('\n')
RECURSIVE join(_)
join(arr) ==
  IF arr = <<>> THEN ""
  ELSE IF Len(arr) = 1 THEN Head(arr)
  ELSE Head(arr) \o "\n" \o join(Tail(arr))

\* logBuffer.slice(-lines).join('\n')
getLogs(lines) == join(slice(logBuffer, 0 - lines))

getLogsCall(lines) ==
  /\ called
  /\ gl' = [pc |-> "done", lines |-> lines, result |-> getLogs(lines)]
  /\ noLog
  /\ UNCHANGED <<currentEnv, customPath, disk, backups, pc2Process, proc, killed, sig,
                 starts, stops, gs, inst, un, sel, rs, lastEnv, side, currentStatus, events, rendererStatus,
                 outputs, freshInstall>>

\* onLog that hands the lines of the buffer to the new callback
onLog_Replay ==
  /\ Len(logListeners) < MaxListeners
  /\ budget > 0
  /\ budget' = budget - 1
  /\ logListeners' = Append([l \in DOMAIN logListeners |-> <<>>], logBuffer)
  /\ logged' = <<>>
  /\ UNCHANGED <<currentEnv, customPath, disk, backups, pc2Process, proc, killed, sig, starts,
                 stops, gs, inst, un, sel, gl, rs, lastEnv, side, currentStatus, events, rendererStatus, logBuffer, outputs,
                 logWatch, histWatch, selfExited, freshInstall>>

\* onLog(callback): one more callback is registered (it counts among the
\* events of a behaviour, as an operation call does)
onLog ==
  /\ Len(logListeners) < MaxListeners
  /\ budget > 0
  /\ budget' = budget - 1
  /\ logListeners' = Append([l \in DOMAIN logListeners |-> <<>>], <<>>)
  /\ logged' = <<>>
  /\ UNCHANGED <<currentEnv, customPath, disk, backups, pc2Process, proc, killed, sig, starts,
                 stops, gs, inst, un, sel, gl, rs, lastEnv, side, currentStatus, events, rendererStatus, logBuffer, outputs,
                 logWatch, histWatch, selfExited, freshInstall>>

\* ------------------------------------------------------- the managed service
\* the child binds port 4200 and answers /health
childReady(c) ==
  /\ noLog
  /\ proc[c] = "alive"
  /\ ~healthOk
  /\ proc' = [proc EXCEPT ![c] = "ready"]
  /\ UNCHANGED <<currentEnv, customPath, disk, backups, pc2Process, killed, sig, starts,
                 stops, gs, inst, currentStatus, events, rendererStatus, budget, selfExited, freshInstall,
                 un, sel, gl, rs, lastEnv, side, outputs>>

\* the child writes a line to its stdout or stderr: the 'data' handlers (it
\* counts among the events of a behaviour, as an operation call does)
childOutput(c, line) ==
  /\ proc[c] \in {"alive", "ready"}
  /\ outputs < MaxOutputs
  /\ outputs' = outputs + 1
  /\ budget > 0
  /\ budget' = budget - 1
  /\ emitLog(<<line>>)
  /\ UNCHANGED <<currentEnv, customPath, disk, backups, pc2Process, proc, killed, sig, starts,
                 stops, gs, inst, currentStatus, events, rendererStatus, selfExited, freshInstall,
                 un, sel, gl, rs, lastEnv, side>>

\* the OS process of the child ends (crash, exit, or death by a signal)
childDies(c) ==
  /\ noLog
  /\ proc[c] \in {"alive", "ready"}
  /\ proc' = [proc EXCEPT ![c] = "exited"]
  /\ UNCHANGED <<currentEnv, customPath, disk, backups, pc2Process, killed, sig, starts,
                 stops, gs, inst, currentStatus, events, rendererStatus, budget, selfExited, freshInstall,
                 un, sel, gl, rs, lastEnv, side, outputs>>

\* choosing the environment and querying the status
NextQuery ==
  \/ \E env \in EnvNames, d \in CustomDirs \cup {""} : setEnvironment(env, d)
  \/ getStatusCall
  \/ getStatusProbed
  \/ getStatusReturn

\* starting and stopping the service, and what the service does
NextService ==
  \/ \E ok \in BOOLEAN : startPC2Call(ok)
  \/ \E s \in StartIds : probeFails(s)
  \/ \E s \in StartIds : probeSucceeds(s)
  \/ \E s \in StartIds : waitTimeout(s)
  \/ \E c \in StartIds, code \in {"0", "null"} : onExit(c, code)
  \/ stopPC2Call
  \/ \E t \in StopIds : stopTimer(t)
  \/ \E t \in StopIds : stopPortKill(t)
  \/ \E t \in StopIds : stopExecDone(t)
  \/ \E c \in StartIds : childReady(c)
  \/ \E c \in StartIds : childDies(c)

NextInstall ==
  \/ \E win \in BOOLEAN, bundlePath \in BOOLEAN, git \in BOOLEAN :
       installPC2Call(win, bundlePath, git)
  \/ \E ok \in BOOLEAN : installFromBundle(ok)
  \/ \E ok \in BOOLEAN : installFromSource(ok)
  \/ \E ok \in BOOLEAN : installStep(ok)

NextUninstall ==
  \/ uninstallPC2Call
  \/ uninstallProbed
  \/ uninstallReturn

NextRestart ==
  \/ restartPC2Call
  \/ \E ok \in BOOLEAN : restartPause(ok)

NextSelect ==
  \/ \E env \in EnvNames : envSelectChange(env)
  \/ envSelectSwitch

NextSink ==
  \/ onLog
  \/ \E c \in StartIds, line \in {"listening", "[stderr] warning"} : childOutput(c, line)

\* the service is installed, started, stopped and queried
Next ==
  \/ NextQuery
  \/ NextService
  \/ NextInstall

\* ... and uninstalled, and the environment is switched from the window
NextUn ==
  \/ NextQuery
  \/ NextService
  \/ NextInstall
  \/ NextUninstall
  \/ NextSelect

\* the service is started and stopped, and the log is written and subscribed to
NextLog ==
  \/ NextService
  \/ NextSink

\* ... and read
NextTail ==
  \/ NextService
  \/ NextSink
  \/ \E n \in 0..(MAX_LOG_LINES + 1) : getLogsCall(n)

Spec == Init /\ [][Next]_vars

SpecLong == InitLong /\ [][Next]_vars

UnSpec == Init /\ [][NextUn]_vars

UnSpecShort == InitShort /\ [][NextUn]_vars

\* the fetch of uninstallPC2's status query settles, and the timer and the
\* command of a stop come to their callbacks
FairUnSpecShort ==
  /\ UnSpecShort
  /\ WF_vars(uninstallProbed)
  /\ \A t \in StopIds :
       WF_vars(stopTimer(t)) /\ WF_vars(stopPortKill(t)) /\ WF_vars(stopExecDone(t))

LogSpec == InitShort /\ [][NextLog]_vars

TailSpec == InitShort /\ [][NextTail]_vars

\* the service is started, stopped and queried and the environment is set,
\* the histories recorded
NextWatch ==
  \/ NextQuery
  \/ NextService

WatchSpec == InitWatch /\ [][NextWatch]_vars

\* every iteration of a waitForServer loop makes its probe, and the loop
\* leaves the while when the timeout has elapsed
FairWatchSpec ==
  /\ WatchSpec
  /\ \A s \in StartIds :
       WF_vars(probeFails(s) \/ probeSucceeds(s)) /\ WF_vars(waitTimeout(s))

\* the service is started, stopped and restarted
NextRs ==
  \/ NextService
  \/ NextRestart

RestartSpec == Init /\ [][NextRs]_vars

\* the environment is set and the service is installed
NextInst ==
  \/ NextQuery
  \/ NextInstall

InstSpec == InitInst /\ [][NextInst]_vars

\* ------------------------------------------- the pc2:setEnvironment handler
\* the handler up to the fetch of its getStatus(): setEnvironment, then the
\* installation check; a getStatus that finds nothing installed returns at
\* once, and the handler sends 'not-installed' to the window
ipcSetEnvironment(env, customDir) ==
  /\ noLog
  /\ ipc.pc \in {"idle", "done"}
  /\ called
  /\ currentEnv' = env
  /\ customPath' = IF env = "custom" /\ customDir # "" THEN customDir ELSE customPath
  /\ envCalled(env, customDir)
  /\ freshInstall' = FALSE
  /\ gs' = [gs EXCEPT !.since = FALSE]
  /\ IF ~markerIn(IF env = "custom" THEN customPath' ELSE ENVIRONMENTS[env].dir, disk)
       THEN /\ ipc' = [pc |-> "done", status |-> "not-installed"]
            /\ rendererStatus' = "not-installed"
       ELSE /\ ipc' = [pc |-> "probing", status |-> "none"]
            /\ UNCHANGED rendererStatus
  /\ UNCHANGED <<disk, backups, pc2Process, proc, killed, sig, starts, stops, inst,
                 currentStatus, events, un, sel, gl, rs, locVars, pm2Vars, wslVars,
                 outputs>>

\* the fetch settles: the rest of getStatus runs, and the handler sends the
\* status to the window
ipcSetEnvironmentProbed ==
  /\ noLog
  /\ ipc.pc = "probing"
  /\ LET status == IF healthOk THEN "running"
                   ELSE IF trackedNotKilled THEN "starting" ELSE "stopped"
     IN  /\ ipc' = [pc |-> "done", status |-> status]
         /\ rendererStatus' = status
  /\ UNCHANGED <<currentEnv, customPath, disk, backups, pc2Process, proc, killed, sig,
                 starts, stops, gs, inst, un, sel, gl, rs, lastEnv, locVars, pm2Vars,
                 wslVars, currentStatus, events, outputs, budget, selfExited,
                 freshInstall>>

NextIpc ==
  \/ \E env \in EnvNames, d \in CustomDirs \cup {""} : ipcSetEnvironment(env, d)
  \/ ipcSetEnvironmentProbed

\* the service is started and stopped and the window sets the environment
IpcSpec == InitWatch /\ [][NextService \/ NextIpc]_vars

\* ------------------------------------------------------------ findNodePath
\* findNodePath() on a host with the given files; empties are the version
\* directories of nvm that hold no node binary
findNodePathCall(win, files, empties) ==
  /\ loc.pc = "idle"
  /\ loc' = [pc |-> "done", win |-> win, files |-> files,
             result |-> findNodePath(win, files, empties)]
  /\ UNCHANGED <<managerVars, pm2Vars, wslVars>>

\* a Windows host has the Windows locations, another host the Unix ones and
\* the versions of nvm
HostFiles(win) ==
  IF win THEN {bundledNode} \cup Range(WindowsPaths)
         ELSE {bundledNode} \cup Range(UnixPaths)
                \cup {nvmNode(v) : v \in Range(NvmVersions)}

NextLoc ==
  \E win \in BOOLEAN :
    \E files \in SUBSET HostFiles(win),
       empties \in SUBSET (IF win THEN {} ELSE Range(NvmVersions)) :
      findNodePathCall(win, files, empties)

\* the runtime is located on some host
LocSpec == Init /\ [][NextLoc]_vars

\* ----------------------------------------------- PM2 variant: restartPC2
\* restartPC2() up to the spawn of `pm2 restart pc2`
pm2RestartPC2(r) ==
  /\ pm2[r].pc = "idle"
  /\ \A q \in RestartIds : q < r => pm2[q].pc # "idle"
  /\ pm2Status' = "starting"
  /\ pm2' = [pm2 EXCEPT ![r].pc = "spawned"]
  /\ UNCHANGED <<managerVars, locVars, wslVars>>

\* the 'close' handler of the restart command
pm2RestartClose(r, code) ==
  /\ pm2[r].pc = "spawned"
  /\ IF code = 0
       THEN /\ pm2' = [pm2 EXCEPT ![r].pc = "waiting"]
            /\ UNCHANGED pm2Status
       ELSE /\ pm2Status' = "error"
            /\ pm2' = [pm2 EXCEPT ![r].pc = "rejected"]
  /\ UNCHANGED <<managerVars, locVars, wslVars>>

\* a probe of waitForServer() gets no answer or no 2xx
pm2ProbeFails(r) ==
  /\ pm2[r].pc = "waiting"
  /\ pm2[r].polls < PollLimit
  /\ pm2' = [pm2 EXCEPT ![r].polls = @ + 1]
  /\ UNCHANGED <<managerVars, locVars, wslVars, pm2Status>>

\* a probe gets a 2xx: waitForServer() returns and the .then() handler runs
pm2ProbeSucceeds(r) ==
  /\ pm2[r].pc = "waiting"
  /\ pm2[r].polls < PollLimit
  /\ pm2Status' = "running"
  /\ pm2' = [pm2 EXCEPT ![r].pc = "resolved"]
  /\ UNCHANGED <<managerVars, locVars, wslVars>>

\* the timeout has elapsed: waitForServer() throws, .catch(reject)
pm2WaitTimeout(r) ==
  /\ pm2[r].pc = "waiting"
  /\ pm2[r].polls = PollLimit
  /\ pm2' = [pm2 EXCEPT ![r].pc = "rejected"]
  /\ UNCHANGED <<managerVars, locVars, wslVars, pm2Status>>

NextPm2 ==
  \E r \in RestartIds :
    \/ pm2RestartPC2(r)
    \/ \E code \in {0, 1} : pm2RestartClose(r, code)
    \/ pm2ProbeFails(r)
    \/ pm2ProbeSucceeds(r)
    \/ pm2WaitTimeout(r)

\* the service of the PM2 variant is restarted
Pm2Spec == Init /\ [][NextPm2]_vars

\* ------------------------------------------ WSL variant on a Windows host
\* setEnvironment(env, customDir); wslOp forgets the operation made before
wslSetEnvironment(env, customDir) ==
  /\ wslCurrentEnv' = env
  /\ wslCustom' = IF env = "custom" /\ customDir # <<>>
                    THEN [wslCustom EXCEPT !.dir = customDir,
                                           !.nodeDir = customDir \o <<"pc2-node">>]
                    ELSE wslCustom
  /\ wslOp' = noOp
  /\ UNCHANGED <<managerVars, locVars, pm2Vars>>

\* isInstalled(): wsl test -f "${wslNodeDir}/dist/index.js"
wslIsInstalled(found) ==
  /\ wslOp' = [name |-> "isInstalled",
               path |-> getWSLNodeDir \o <<"dist", "index.js">>,
               outcome |-> IF found THEN "yes" ELSE "no"]
  /\ UNCHANGED <<managerVars, locVars, pm2Vars, wslCurrentEnv, wslCustom>>

\* startPC2(): isInstalled(), then cd "${nodeDir}" && node dist/index.js
wslStartPC2(found) ==
  /\ wslOp' = [name |-> "start", path |-> getWSLNodeDir,
               outcome |-> IF found THEN "spawned" ELSE "not-installed"]
  /\ UNCHANGED <<managerVars, locVars, pm2Vars, wslCurrentEnv, wslCustom>>

\* installPC2(): wsl test -d "${pc2Dir}" and the steps under it
wslInstallPC2 ==
  /\ wslOp' = [name |-> "install", path |-> getWSLDir, outcome |-> "begun"]
  /\ UNCHANGED <<managerVars, locVars, pm2Vars, wslCurrentEnv, wslCustom>>

\* uninstallPC2(): the safety check, then wsl rm -rf "${pc2Dir}"
wslUninstallPC2 ==
  /\ wslOp' = [name |-> "uninstall", path |-> getWSLDir,
               outcome |-> IF wslSafe(getWSLDir) THEN "removed" ELSE "refused"]
  /\ UNCHANGED <<managerVars, locVars, pm2Vars, wslCurrentEnv, wslCustom>>

NextWsl ==
  \/ \E env \in EnvNames, customDir \in WinRoots \cup {<<>>} :
       wslSetEnvironment(env, customDir)
  \/ \E found \in BOOLEAN : wslIsInstalled(found)
  \/ \E found \in BOOLEAN : wslStartPC2(found)
  \/ wslInstallPC2
  \/ wslUninstallPC2

\* the WSL variant is used on a Windows host
WslSpec == Init /\ [][NextWsl]_vars

TypeOK ==
  /\ currentEnv \in EnvNames
  /\ customPath \in CustomDirs \cup {""}
  /\ disk \in [Dirs -> DiskStates]
  /\ pc2Process \in StartIds \cup {NoProcess}
  /\ currentStatus \in Statuses
  /\ budget \in 0..(MaxCalls + 1)
  /\ logBuffer \in Seq(STRING)
  /\ events \in Seq(Statuses)
  /\ histWatch \in BOOLEAN
  /\ Len(logBuffer) <= MAX_LOG_LINES
  /\ rendererStatus \in Statuses
  /\ pm2Status \in Statuses
  /\ \A r \in RestartIds : pm2[r].polls \in 0..PollLimit
  /\ wslCurrentEnv \in EnvNames
  /\ loc.pc \in {"idle", "done"}
  /\ ipc.pc \in {"idle", "probing", "done"}

\* =================================================================== claims

\* C1: startPC2 never spawns a new child while a previously spawned child is
\* still tracked and has not exited.
C1_NoSpawnWhileTracked ==
  [][\A s \in StartIds :
       (proc[s] = "none" /\ proc'[s] = "alive")
         => ~(pc2Process # NoProcess /\ proc[pc2Process] \in {"alive", "ready"})]_vars

\* C2: a startPC2() call that arrives while the readiness polling of an
\* earlier startPC2() has not settled spawns no child, starts no polling loop
\* and emits no status.
C2_SecondStartIsNoOp ==
  [][\A s \in StartIds :
       (/\ starts[s].promise = "none"
        /\ starts'[s].promise # "none"
        /\ \E r \in StartIds : starts[r].loop = "polling")
         => (/\ proc'[s] = "none"
             /\ starts'[s].loop = "none"
             /\ currentStatus' = currentStatus)]_vars

\* C3: after startPC2() has rejected with the timeout error and set the
\* status to 'error', the status is still 'error' once the exit event of the
\* child it spawned has been processed.
C3_ErrorSurvivesExit ==
  [][\A c \in StartIds :
       (/\ proc[c] = "exited"
        /\ proc'[c] = "gone"
        /\ starts[c].err = "timeout"
        /\ currentStatus = "error")
         => currentStatus' = "error"]_vars

\* C4: once the tracked child has exited on its own, the handle is cleared and
\* the status is 'stopped' and stays so until the next operation is called.
C4_SelfExitStaysStopped ==
  selfExited => (pc2Process = NoProcess /\ currentStatus = "stopped")

\* C5: when stopPC2() resolves, the last emitted status is 'stopped' and the
\* handle that was tracked when it was called is no longer tracked.
C5_StopResolvesCleared ==
  [][\A t \in StopIds :
       (stops[t].pc # "resolved" /\ stops'[t].pc = "resolved")
         => (/\ currentStatus' = "stopped"
             /\ stops[t].target # NoProcess => pc2Process' # stops[t].target)]_vars

\* C6: when the grace timer of stopPC2() fires and the child that was sent the
\* graceful signal has not exited, that child is sent SIGKILL.
C6_GraceEscalates ==
  [][\A t \in StopIds :
       (/\ stops[t].pc = "grace"
        /\ stops'[t].pc = "resolved"
        /\ proc[stops[t].target] \in {"alive", "ready"})
         => sig'[stops[t].target] = "SIGKILL"]_vars

\* C7: a stopPC2() called with no child tracked and nothing listening on port
\* 4200 ends with status 'stopped', whatever was called before it (another such
\* stop included), and none of its steps tracks a process.
C7_IdleStopIdempotent ==
  [][\A t \in StopIds :
       /\ (stops[t].pc = "none" /\ stops'[t].pc # "none"
             /\ pc2Process = NoProcess /\ ~healthOk)
            => (stops'[t].pc = "exec" /\ stops'[t].quiet /\ pc2Process' = NoProcess)
       /\ (stops[t].quiet /\ stops'[t].pc # stops[t].pc)
            => pc2Process' = pc2Process
       /\ (stops[t].quiet /\ stops[t].pc # "resolved" /\ stops'[t].pc = "resolved")
            => currentStatus' = "stopped"]_vars

\* two such stops in a row have both ended, in 'stopped', with nothing tracked
C7_Witness ==
  /\ \E t, u \in StopIds :
       /\ t # u
       /\ stops[t].pc = "resolved" /\ stops[t].quiet
       /\ stops[u].pc = "resolved" /\ stops[u].quiet
  /\ currentStatus = "stopped"
  /\ pc2Process = NoProcess

\* C8: getStatus() called while the current environment is not installed
\* returns 'not-installed' without a health probe and without a look at the
\* tracked process.
C8_NotInstalledNoProbe ==
  [][(gs.pc = "idle" /\ gs'.pc # "idle" /\ ~isInstalled)
       => (/\ gs'.pc = "done"
           /\ gs'.result = "not-installed"
           /\ ~gs'.probed
           /\ ~gs'.checked)]_vars

\* it returned 'not-installed' although the health endpoint answers and a
\* child is tracked
C8_Witness ==
  /\ gs.pc = "done"
  /\ gs.result = "not-installed"
  /\ ~gs.probed
  /\ healthOk
  /\ trackedNotKilled

\* C9: after installPC2() has installed the current environment, the
\* environment is installed and a getStatus() called before the next
\* startPC2() returns 'stopped'.
C9_StoppedUntilStart ==
  freshInstall =>
    /\ isInstalled
    /\ (gs.pc = "done" /\ gs.since) => gs.result = "stopped"

\* C10: for an installed environment getStatus() returns 'running' iff the
\* probe succeeds, else 'starting' iff the tracked child's process has not
\* exited, else 'stopped'.  (A tracked child whose process has ended but whose
\* exit event is still queued is left open.)
C10_StatusByLiveness ==
  [][(gs.pc = "probing" /\ gs'.pc = "done")
       => /\ gs'.result = "running" <=> healthOk
          /\ (~healthOk /\ pc2Process # NoProcess /\ proc[pc2Process] = "alive")
               => gs'.result = "starting"
          /\ (~healthOk /\ (pc2Process = NoProcess \/ proc[pc2Process] = "gone"))
               => gs'.result = "stopped"]_vars

\* the last n elements of a sequence, in order (all of it if it is shorter)
lastN(seq, n) ==
  IF n >= Len(seq) THEN seq ELSE SubSeq(seq, Len(seq) - n + 1, Len(seq))

\* the install roots of the default and the development environment
ServiceRoots == {ENVIRONMENTS["default"].dir, ENVIRONMENTS["dev"].dir}

\* C11: no step of a getStatus() call (its call, the settling of its probe,
\* its return) changes the tracked handle, the children, the environment, the
\* install roots, the other calls in flight, the log buffer or the last
\* emitted status, and none hands a line to a log callback.
C11_GetStatusIsPure ==
  [][gs'.pc # gs.pc
       => /\ UNCHANGED <<pc2Process, proc, killed, sig, currentEnv, customPath, disk,
                         starts, stops, inst, un, sel, logBuffer, currentStatus>>
          /\ logged' = <<>>
          /\ \A l \in DOMAIN logListeners' : logListeners'[l] = <<>>]_vars

\* a getStatus() has returned 'starting' while a startPC2() is in flight and
\* the buffer holds the lines of that start
C11_Witness ==
  /\ gs.pc = "done"
  /\ gs.result = "starting"
  /\ \E s \in StartIds : starts[s].promise = "pending"
  /\ logBuffer # <<>>
  /\ currentStatus = "starting"

\* C12: an uninstallPC2() called while the install root contains neither
\* '.pc2' nor 'pc2.net' throws, deletes nothing, enters no stop, emits no
\* status and no log line, and leaves the handle and the children alone.
C12_UninstallRefuses ==
  [][(/\ un.pc = "idle"
      /\ un'.pc # "idle"
      /\ ~includes(getPC2Dir, ".pc2")
      /\ ~includes(getPC2Dir, "pc2.net"))
       => /\ un'.pc = "failed"
          /\ UNCHANGED <<disk, stops, pc2Process, proc, killed, sig, currentStatus,
                         logBuffer, currentEnv, customPath>>
          /\ logged' = <<>>
          /\ \A l \in DOMAIN logListeners' : logListeners'[l] = <<>>]_vars

\* it has thrown for the custom root /tmp/unrelated, which is still there
C12_Witness ==
  /\ un.pc = "failed"
  /\ un.dir = "/tmp/unrelated"
  /\ disk["/tmp/unrelated"] = "unrecognized"

\* C13: a step that completes an uninstallPC2() deletes a directory only if
\* it is the install root of the default or of the development environment.
C13_DeletesOnlyServiceRoots ==
  [][\A d \in Dirs :
       (un.pc # "done" /\ un'.pc = "done" /\ disk[d] # "absent" /\ disk'[d] = "absent")
         => d \in ServiceRoots]_vars

\* C14: the step that completes an uninstallPC2() of the default or the
\* development root leaves that root absent and without build marker and the
\* last emitted status 'not-installed'; a root that was missing already is no
\* error.
C14_UninstallCompletes ==
  [][(/\ un.pc \in {"idle", "probing", "stopping"}
      /\ un'.pc \in {"done", "failed"}
      /\ un'.dir \in ServiceRoots)
       => /\ un'.pc = "done"
          /\ disk'[un'.dir] = "absent"
          /\ ~markerIn(un'.dir, disk')
          /\ currentStatus' = "not-installed"]_vars

C15_StopBeforeDelete ==
  [][(un.pc = "stopping" /\ un'.pc = "done" /\ un.running)
       => /\ stops'[un.stop].pc = "resolved"
          /\ pc2Process' = NoProcess]_vars

\* C16: the buffer never holds more than MAX_LOG_LINES lines, and after every
\* turn it holds the last MAX_LOG_LINES of its former lines followed by the
\* lines of that turn (so one line appended to a full buffer evicts the oldest
\* line and leaves the others in order).
C16_RingBuffer ==
  /\ [](Len(logBuffer) <= MAX_LOG_LINES)
  /\ [][logBuffer' = lastN(logBuffer \o logged', MAX_LOG_LINES)]_vars

\* the line of the successful start has evicted the oldest line of a full buffer
C16_Witness ==
  /\ Len(logBuffer) = MAX_LOG_LINES
  /\ logged = <<"PC2 is now running!">>
  /\ logBuffer = <<"Starting", "Process spawned, waiting for server to be ready...",
                   "PC2 is now running!">>

\* C17: getLogs(n) with 0 <= n < buffer length returns the n last lines of the
\* buffer, in order, joined by line feeds.
C17_TailReturnsLastN ==
  [][(gl' # gl /\ gl'.lines < Len(logBuffer))
       => gl'.result = join(lastN(logBuffer, gl'.lines))]_vars

\* C18: in every turn each callback registered before the turn is handed
\* exactly the lines appended in that turn, in order, and a callback registered
\* in the turn is handed nothing.
C18_DeliveredOnce ==
  [][/\ Len(logListeners') >= Len(logListeners)
     /\ \A l \in DOMAIN logListeners' :
          logListeners'[l] = IF l \in DOMAIN logListeners THEN logged' ELSE <<>>
     /\ Len(logListeners') > Len(logListeners) => logged' = <<>>]_vars

\* two callbacks are registered, the buffer holds lines older than this turn,
\* and both callbacks have been handed this turn's line and nothing else
C18_Witness ==
  /\ Len(logListeners) = 2
  /\ logged = <<"PC2 is now running!">>
  /\ logListeners[1] = logged
  /\ logListeners[2] = logged
  /\ Len(logBuffer) > 1

\* C19: once a start, a stop, an install or an uninstall has completed and
\* while no call is in flight, the last emitted status is 'not-installed' iff
\* the current environment has no build marker.
C19_NotInstalledIffNoMarker ==
  (/\ \/ \E s \in StartIds : starts[s].promise \in {"resolved", "rejected"}
      \/ \E t \in StopIds : stops[t].pc = "resolved"
      \/ inst.pc = "done"
      \/ un.pc = "done"
   /\ \A s \in StartIds : starts[s].loop # "polling"
   /\ \A t \in StopIds : stops[t].pc \in {"none", "resolved"}
   /\ inst.pc \in {"idle", "done", "failed"}
   /\ un.pc \in {"idle", "done", "failed"}
   /\ sel.pc \in {"idle", "done"})
    => (currentStatus = "not-installed" <=> ~isInstalled)

\* C20: when the handler of the environment selector has switched the
\* environment, no child is tracked and no child spawned before is alive.
C20_SwitchStopsFirst ==
  [][(sel' # sel /\ sel'.pc = "done")
       => /\ pc2Process' = NoProcess
          /\ \A c \in StartIds : proc'[c] \notin {"alive", "ready"}]_vars
\* C21: after a setEnvironment('custom') without a directory or with an empty
\* one, and after a setEnvironment('default') or setEnvironment('dev'), the
\* stored custom root (and with it the custom service root derived from it) is
\* the one stored before the call.
C21_CustomRootKept ==
  (/\ lastEnv.called
   /\ \/ lastEnv.env \in {"default", "dev"}
      \/ lastEnv.env = "custom" /\ lastEnv.customDir = "")
    => customPath = lastEnv.before

\* setEnvironment('custom') without a directory has been called while a custom
\* root was stored, and that root is still stored
C21_Witness ==
  /\ lastEnv.called
  /\ lastEnv.env = "custom"
  /\ lastEnv.customDir = ""
  /\ lastEnv.before \in CustomDirs
  /\ customPath = lastEnv.before
  /\ currentEnv = "custom"

\* C22: the step that ends an installPC2() of a root without build marker,
\* made while the last emitted status is 'not-installed', leaves the last
\* emitted status 'stopped' if the call succeeded and 'error' if it failed.
C22_InstallSetsStatus ==
  [][(/\ inst' # inst
      /\ inst'.pc \in {"done", "failed"}
      /\ currentStatus = "not-installed"
      /\ ~markerIn(inst'.dir, disk))
       => currentStatus' = IF inst'.pc = "done" THEN "stopped" ELSE "error"]_vars

\* the last element of a non-empty sequence
Last(seq) == seq[Len(seq)]

\* C23: while installFromSource runs its pipeline, the steps that have run
\* are the steps before the current one, all of them exited with code 0, and
\* the label of the current step has been reported; the pipeline enters at
\* step 1 and moves from step k to step k+1 only on exit code 0 of step k; a
\* step that exits otherwise ends the call as failed with the error of that
\* step, no other step having run; a call that succeeds has run four steps.
C23_PipelineInOrder ==
  /\ [](inst.pc = "step"
          => /\ inst.step \in 1..4
             /\ Len(inst.exits) = inst.step - 1
             /\ \A i \in DOMAIN inst.exits : inst.exits[i] = "0"
             /\ inst.progress = stepMsg(inst.step))
  /\ [][(inst'.pc = "step" /\ inst' # inst)
          => \/ inst.pc = "prepare" /\ inst'.step = 1 /\ inst'.exits = <<>>
             \/ /\ inst.pc = "step"
                /\ inst'.step = inst.step + 1
                /\ inst'.exits = Append(inst.exits, "0")]_vars
  /\ [][(inst.pc = "step" /\ inst' # inst /\ Last(inst'.exits) # "0")
          => /\ inst'.pc = "failed"
             /\ inst'.err = "step"
             /\ inst'.step = inst.step
             /\ Len(inst'.exits) = inst.step
             /\ UNCHANGED <<disk, backups>>]_vars
  /\ [][(inst.pc = "step" /\ inst'.pc = "done")
          => inst'.exits = <<"0", "0", "0", "0">>]_vars

\* the third step has exited with a code other than 0 after two steps that
\* exited with 0: the call has failed, its last label is that of the third step
C23_Witness ==
  /\ inst.pc = "failed"
  /\ inst.err = "step"
  /\ inst.exits = <<"0", "0", "1">>
  /\ inst.step = 3
  /\ inst.progress = stepMsg(3)

\* C24: when an installPC2() that follows a failed pipeline on the same root,
\* the root being without build marker, sends its fetch step, the root is
\* absent (so that the fetch can succeed).
C24_RetryStartsClean ==
  [][(/\ inst.pc = "prepare"
      /\ inst'.pc = "step"
      /\ inst.retry
      /\ inst.dir \in Dirs
      /\ ~markerIn(inst.dir, disk))
       => disk'[inst.dir] = "absent"]_vars

\* C25: a step of installPC2() changes a root that exists without
\* package.json and was not written by the launcher only by renaming it: the
\* step adds a backup sibling that holds what the root held, and no step ever
\* removes or changes a backup sibling made before.
C25_UnrecognizedIsBackedUp ==
  /\ [][\A d \in Dirs :
          (inst' # inst /\ disk[d] = "unrecognized" /\ disk'[d] # "unrecognized")
            => backups' = Append(backups, [from |-> d, holds |-> "unrecognized"])]_vars
  /\ [][/\ Len(backups') >= Len(backups)
        /\ SubSeq(backups', 1, Len(backups)) = backups]_vars

\* an install from source into the custom root /tmp/unrelated has succeeded:
\* the root holds the build and what it held before is in its backup sibling
C25_Witness ==
  /\ inst.pc = "done"
  /\ inst.dir = "/tmp/unrelated"
  /\ disk["/tmp/unrelated"] = "built"
  /\ backups = <<[from |-> "/tmp/unrelated", holds |-> "unrecognized"]>>

\* an installPC2() is called
installCalled ==
  /\ inst.pc \in {"idle", "done", "failed"}
  /\ inst' # inst

\* C26: an installPC2() that takes the source path on a host without git
\* fails in the turn of the call with the git error: no progress label (so no
\* runtime download) has been reported, no pipeline step has run, no
\* directory has been renamed or changed, and the log got the remediation
\* message.
C26_NoGitFailsFast ==
  [][(installCalled /\ inst'.host.git = "absent")
       => /\ inst'.pc = "failed"
          /\ inst'.err = "git"
          /\ inst'.progress = ""
          /\ inst'.host.node = "unknown"
          /\ inst'.exits = <<>>
          /\ inst'.step = 0
          /\ UNCHANGED <<disk, backups>>
          /\ logged' = <<"Installing PC2 to",
                         "Git is not installed. Please install git and try again.">>]_vars

\* an install into the custom root /tmp/unrelated has failed for want of git,
\* and the directory is where it was
C26_Witness ==
  /\ inst.pc = "failed"
  /\ inst.err = "git"
  /\ inst.host.git = "absent"
  /\ inst.dir = "/tmp/unrelated"
  /\ disk["/tmp/unrelated"] = "unrecognized"
  /\ backups = <<>>

\* C27: an installPC2() that finds a prebuilt bundle takes the bundle path,
\* whatever the platform.
C27_BundlePreferred ==
  [][(installCalled /\ inst'.host.bundlePath) => inst'.pc = "bundle"]_vars

\* C28: when the download of the runtime has failed, the installPC2() has
\* failed, and the step has neither renamed nor written a directory nor sent a
\* pipeline step.
C28_NoRuntimeFailsInstall ==
  [][(inst' # inst /\ inst.host.node = "unknown" /\ inst'.host.node = "failed")
       => /\ inst'.pc = "failed"
          /\ inst'.step = 0
          /\ UNCHANGED <<disk, backups>>]_vars

\* C29: the stop that a restartPC2() awaits resolves with 'stopped' emitted
\* and the child that was tracked when it began no longer tracked; when the
\* start of the restart spawns a child, no child was tracked, and the new
\* child is; and when that start rejects, the last emitted status is 'error'.
C29_RestartIsSequential ==
  /\ [][(/\ rs.pc = "stopping"
         /\ stops[rs.stop].pc # "resolved"
         /\ stops'[rs.stop].pc = "resolved")
          => /\ stops[rs.stop].target # NoProcess => pc2Process' # stops[rs.stop].target
             /\ currentStatus' = "stopped"]_vars
  /\ [][(/\ rs.pc = "stopping"
         /\ rs'.pc = "started"
         /\ proc'[rs'.start] = "alive")
          => /\ pc2Process = NoProcess
             /\ pc2Process' = rs'.start]_vars
  /\ [][(/\ rs.pc = "started"
         /\ starts[rs.start].promise # "rejected"
         /\ starts'[rs.start].promise = "rejected")
          => currentStatus' = "error"]_vars

\* the first startPC2() has seen its probe fail once and then succeed, its
\* child is up, and no other start, no stop and no setEnvironment has been
\* called
startedOnSecondPoll ==
  /\ starts[1].loop = "ready"
  /\ starts[1].polls = 1
  /\ proc[1] = "ready"
  /\ \A s \in StartIds \ {1} : starts[s].promise = "none"
  /\ \A t \in StopIds : stops[t].pc = "none"
  /\ ~lastEnv.called

\* C30: once a startPC2() on the installed, stopped service has seen its
\* probe fail on the first poll and succeed on the second, and as long as
\* nothing else is called and the child stays up, the status listeners have
\* been told 'starting' and then 'running' and nothing else, the promise has
\* resolved and the spawned child is tracked.
C30_StartingThenRunning ==
  startedOnSecondPoll
    => /\ events = <<"starting", "running">>
       /\ starts[1].promise = "resolved"
       /\ pc2Process = 1
       /\ currentStatus = "running"

\* that start, with a getStatus() that has since returned 'running'
C30_Witness ==
  /\ startedOnSecondPoll
  /\ events = <<"starting", "running">>
  /\ gs.pc = "done"
  /\ gs.result = "running"

\* C31: a polling loop of waitForServer stays in the loop, with the promise of
\* its start call as it was, or it returns after a probe that got a 2xx, or it
\* throws the timeout error after the timeout has elapsed; a failed probe
\* leaves it polling and emits no status.
C31_LoopEndsTwoWays ==
  [][\A s \in StartIds :
       starts[s].loop = "polling"
         => /\ \/ /\ starts'[s].loop = "polling"
                  /\ starts'[s].promise = starts[s].promise
                  /\ starts'[s].err = starts[s].err
               \/ /\ starts'[s].loop = "ready"
                  /\ healthOk
               \/ /\ starts'[s].loop = "timedout"
                  /\ starts[s].polls = PollLimit
                  /\ starts[s].promise = "pending" => starts'[s].err = "timeout"
            /\ starts'[s].polls > starts[s].polls
                 => /\ starts'[s].loop = "polling"
                    /\ UNCHANGED <<currentStatus, pc2Process>>]_vars

\* a loop has thrown the timeout error after PollLimit failed probes
C31_Witness ==
  \E s \in StartIds :
    /\ starts[s].loop = "timedout"
    /\ starts[s].polls = PollLimit
    /\ starts[s].err = "timeout"
    /\ starts[s].promise = "rejected"
\* the conventional install locations of the platform
C32_Conventional(win) == IF win THEN WindowsPaths ELSE UnixPaths

\* the node binaries of the nvm versions of the accepted major version
C32_NvmAccepted == {nvmNode(v) : v \in {w \in Range(NvmVersions) : startsWithV20(w)}}

\* C32 as stated: findNodePath returns the first existing candidate in this
\* order: the bundled runtime, the conventional install locations of the
\* platform, the nvm versions of the accepted major version, the bare command
\* (violated: off Windows the nvm versions are tried before the conventional
\* locations)
C32_PreferenceOrder ==
  loc.pc = "done"
    => \/ loc.result = bundledNode /\ bundledNode \in loc.files
       \/ /\ bundledNode \notin loc.files
          /\ loc.result \in Range(C32_Conventional(loc.win)) \cap loc.files
          /\ loc.result = firstExisting(C32_Conventional(loc.win), loc.files)
       \/ /\ bundledNode \notin loc.files
          /\ Range(C32_Conventional(loc.win)) \cap loc.files = {}
          /\ loc.result \in C32_NvmAccepted \cap loc.files
       \/ /\ bundledNode \notin loc.files
          /\ Range(C32_Conventional(loc.win)) \cap loc.files = {}
          /\ C32_NvmAccepted \cap loc.files = {}
          /\ loc.result = "node"

\* C33: in the PM2 variant a restartPC2() that fails, by a non-zero exit of
\* the restart command or by the readiness wait timing out, leaves the status
\* at 'error', and once every restartPC2() has settled the status is not
\* 'starting' (violated: the timeout only rejects the promise)
C33_FailedRestartIsError ==
  /\ [][\A r \in RestartIds :
          (pm2[r].pc # "rejected" /\ pm2'[r].pc = "rejected")
            => pm2Status' = "error"]_vars
  /\ []((/\ \A r \in RestartIds : pm2[r].pc \in {"idle", "resolved", "rejected"}
         /\ \E r \in RestartIds : pm2[r].pc \in {"resolved", "rejected"})
          => pm2Status # "starting")

\* C34: in the WSL variant on Windows, once setEnvironment('custom', root) has
\* been called every operation addresses the translated custom root: the
\* install root is toWSLPath(root) and the service root is pc2-node under it
\* (violated: setEnvironment leaves wslDir and wslNodeDir of the custom
\* environment empty)
C34_CustomRootTranslated ==
  (/\ wslCurrentEnv = "custom"
   /\ wslCustom.dir \in WinRoots
   /\ wslOp.name # "none")
    => LET root == toWSLPath(wslCustom.dir)
       IN  wslOp.path =
             CASE wslOp.name = "isInstalled" -> root \o <<"pc2-node", "dist", "index.js">>
               [] wslOp.name = "start"       -> root \o <<"pc2-node">>
               [] OTHER                      -> root

\* C35: the 3 s timer of a stopPC2() signals and clears only the child that
\* was tracked when that stopPC2() was called: when that child has exited, a
\* child spawned since is neither signalled nor untracked by it (violated: the timer tests and
\* clears whatever pc2Process refers to when it fires)
C35_TimerKeepsToItsChild ==
  [][\A t \in StopIds :
       (/\ stops[t].pc = "grace" /\ stops'[t].pc # "grace"
        /\ proc[stops[t].target] \in {"exited", "gone"})
         => /\ \A c \in StartIds :
                 c # stops[t].target
                   => sig'[c] = sig[c] /\ killed'[c] = killed[c]
            /\ pc2Process # stops[t].target => pc2Process' = pc2Process]_vars

\* C36: when an uninstallPC2() completes successfully no child is tracked and
\* no child is alive, whatever the state it was called in (violated: the
\* service is stopped only when getStatus() answers 'running'; a child that
\* is tracked but not yet healthy is left running and tracked)
C36_NoChildAfterUninstall ==
  [][(un.pc # "done" /\ un'.pc = "done")
       => /\ pc2Process' = NoProcess
          /\ \A c \in StartIds : proc'[c] \notin {"alive", "ready"}]_vars

\* C37: a startPC2() emits 'running' only while the child it spawned is still
\* tracked and has not exited (violated: the polling loop is not cancelled
\* when the child exits, and any answer on the health endpoint ends it)
C37_RunningMeansOwnChild ==
  [][\A s \in StartIds :
       (starts[s].loop = "polling" /\ starts'[s].loop = "ready")
         => /\ pc2Process = s
            /\ proc[s] \in {"alive", "ready"}]_vars

\* C38: the status held by the main process and the status shown by the
\* window agree whenever no pc2:setEnvironment is in progress (violated: the
\* handler sends the status it computed to the window only)
C38_StatusesAgree ==
  ipc.pc # "probing" => rendererStatus = currentStatus

\* C40: a startPC2() called while the current environment is not installed
\* spawns no child, starts no polling, leaves the handle and the children as
\* they are, emits 'not-installed' and resolves.
C40_NotInstalledStart ==
  [][\A s \in StartIds :
       (starts[s].promise = "none" /\ starts'[s].promise # "none" /\ ~isInstalled)
         => /\ starts'[s] = [idleStart EXCEPT !.promise = "resolved"]
            /\ currentStatus' = "not-installed"
            /\ UNCHANGED <<pc2Process, proc, killed, sig>>]_vars

\* a start in an environment that is not installed has resolved, the child of
\* an earlier start still tracked
C40_Witness ==
  /\ ~isInstalled
  /\ currentStatus = "not-installed"
  /\ pc2Process = 1
  /\ proc[2] = "none"
  /\ starts[2] = [idleStart EXCEPT !.promise = "resolved"]

\* C39: every startPC2() that has emitted 'starting' eventually settles, the
\* step that settles it leaves the status at 'running' or 'error', and the
\* status is 'starting' only while a start is in flight.
C39_StartSettles ==
  /\ \A s \in StartIds :
       (starts[s].promise = "pending")
         ~> (starts[s].promise \in {"resolved", "rejected"})
  /\ [][\A s \in StartIds :
          (starts[s].promise = "pending" /\ starts'[s].promise # "pending")
            => /\ starts'[s].promise \in {"resolved", "rejected"}
               /\ currentStatus' \in {"running", "error"}]_vars
  /\ [](currentStatus = "starting"
         => \E s \in StartIds : starts[s].promise = "pending")

\* the child of a start has exited on its own ('stopped'), which settles
\* nothing; the timeout of the polling loop has then rejected the call
C39_Witness ==
  /\ starts[1].promise = "rejected"
  /\ starts[1].err = "timeout"
  /\ proc[1] = "gone"
  /\ pc2Process = NoProcess
  /\ events = <<"starting", "stopped", "error">>

\* the candidates in the order in which the code prefers them
C32_Order(win) ==
  IF win THEN <<bundledNode>> \o WindowsPaths
         ELSE <<bundledNode, nvmNode("v20.9.0"), nvmNode("v20.11.0")>> \o UnixPaths

\* C32 as amended: findNodePath returns the first existing candidate in this
\* order: the bundled runtime; off Windows, the v20 versions of nvm, the one
\* that sorts last as a string first; the conventional install locations of
\* the platform; the bare command.
C32_NvmBeforeConventional ==
  loc.pc = "done" => loc.result = firstExisting(C32_Order(loc.win), loc.files)

\* both v20 versions of nvm and a conventional location exist, no bundled
\* runtime: the version that sorts last as a string is returned
C32_Witness ==
  /\ loc.pc = "done"
  /\ ~loc.win
  /\ loc.files = {nvmNode("v20.9.0"), nvmNode("v20.11.0"), "/usr/local/bin/node"}
  /\ loc.result = nvmNode("v20.9.0")

====
